---- MODULE Spec2Model ----
(***************************************************************************)
(* brapi: the dispatch pipeline of BaseAPI (src/brapi/api.py), the schema  *)
(* binding decorator (src/brapi/decorators.py), the APIException type      *)
(* (src/brapi/exceptions.py) and the Router (src/brapi/router.py).         *)
(*                                                                         *)
(* Python values are tagged records (field t names the Python type), so    *)
(* that None, strings, integers, dicts, lists, tuples and objects can be   *)
(* compared with each other.                                               *)
(***************************************************************************)
EXTENDS Integers, Sequences, FiniteSets, TLC

VARIABLES
    bindings,      \* function name -> its validate_query / validate_body attributes
    pc,            \* position of the request in BaseAPI.dispatch
    request,       \* the request being dispatched (NoRequest when idle)
    slots,         \* request.validated_query / request.validated_body
    calls,         \* the calls dispatch has made for this request, in order
    validator,     \* what _validate did for this request
    impl,          \* the operation method that ran, and what it did
    response,      \* the response dispatch returned
    escaped,       \* the exception that propagated out of dispatch
    urlpatterns,   \* the list object Router.urlpatterns
    registered,    \* the classes Router.add was called with, in order
    returned,      \* the reference the urls property handed to its caller
    callerWrites,  \* how many times the caller wrote through that reference
    declared,      \* function name -> the validate(...) declarations applied to it
    inflight,      \* the requests being dispatched at the same time
    objects        \* the attributes of the request object of each of them

dispatchVars ==
    <<bindings, pc, request, slots, calls, validator, impl, response, escaped>>
routerVars == <<urlpatterns, registered, returned, callerWrites>>
declVars == <<declared>>
concVars == <<inflight, objects>>
vars ==
    <<bindings, pc, request, slots, calls, validator, impl, response, escaped,
      urlpatterns, registered, returned, callerWrites, declared, inflight, objects>>

(***************************************************************************)
(* Bounds of the model.                                                    *)
(***************************************************************************)
\* how many validate_query / validate_body attributes are set, over all the
\* handler functions, at the same time
MaxAttributes == 2
\* how many times Router.add is called
MaxRegistrations == 3
\* how many times the caller of urls writes to the list it was handed
MaxCallerWrites == 1
\* how many times validate(...) is applied
MaxDeclarations == 3

(***************************************************************************)
(* Python values.                                                          *)
(***************************************************************************)
None == [t |-> "None"]
PyStr(s) == [t |-> "str", s |-> s]
PyInt(n) == [t |-> "int", n |-> n]
PyDict(items) == [t |-> "dict", items |-> items]
PyList(items) == [t |-> "list", items |-> items]
PyTuple(items) == [t |-> "tuple", items |-> items]
\* an instance json.dumps has no encoding for (a set, a model instance, ...)
PyObject == [t |-> "object"]
\* a django.http.HttpResponse instance
HttpResponse(body, status) == [t |-> "HttpResponse", body |-> body, status |-> status]
\* a pydantic model class, and an instance of it built from the given data
ModelClass(name) == [t |-> "class", name |-> name]
ModelInstance(cls, data) == [t |-> "model", cls |-> cls.name, data |-> data]

IsNone(v) == v.t = "None"
\* Python truthiness of the values the code tests (`if pk :=`, `if query:`)
Truthy(v) ==
    CASE v.t = "None" -> FALSE
      [] v.t = "str" -> v.s # ""
      [] v.t = "int" -> v.n # 0
      [] OTHER -> TRUE

(***************************************************************************)
(* Outcomes of a call: it returns a value or raises an exception.          *)
(***************************************************************************)
Return(v) == [kind |-> "return", value |-> v]
Raise(e) == [kind |-> "raise", exc |-> e]
Returned(o) == o.kind = "return"
Raised(o) == o.kind = "raise"

Exc(type) == [type |-> type]
ValidationError(cls) ==
    [type |-> "ValidationError",
     errors |-> PyList(<<PyDict([loc |-> PyStr(cls.name), type |-> PyStr("missing")])>>)]
APIException(code, message, status_code) ==
    [type |-> "APIException", code |-> code, message |-> message,
     status_code |-> status_code]

\* the exception types the model raises, each with its Python base classes
Bases(type) ==
    CASE type = "ValidationError" -> {"ValidationError", "ValueError", "Exception"}
      [] type = "JSONDecodeError" -> {"JSONDecodeError", "ValueError", "Exception"}
      [] type = "UnicodeDecodeError" -> {"UnicodeDecodeError", "ValueError", "Exception"}
      [] type = "NotImplementedError" -> {"NotImplementedError", "RuntimeError", "Exception"}
      [] type = "ObjectDoesNotExist" -> {"ObjectDoesNotExist", "Exception"}
      [] type = "DoesNotExist" -> {"DoesNotExist", "ObjectDoesNotExist", "Exception"}
      [] type = "APIException" -> {"APIException", "Exception"}
      [] type = "TypeError" -> {"TypeError", "Exception"}
      [] type = "ValueError" -> {"ValueError", "Exception"}
      [] OTHER -> {type, "Exception"}
IsInstance(e, type) == type \in Bases(e.type)

(***************************************************************************)
(* django.http.JsonResponse(data, status=...), as dispatch uses it.        *)
(***************************************************************************)
RECURSIVE JSONSerializable(_)
JSONSerializable(v) ==
    CASE v.t \in {"None", "str", "int", "bool"} -> TRUE
      [] v.t = "dict" -> \A k \in DOMAIN v.items : JSONSerializable(v.items[k])
      [] v.t \in {"list", "tuple"} -> \A i \in DOMAIN v.items : JSONSerializable(v.items[i])
      [] OTHER -> FALSE

\* int(s) of the strings used as status codes: the digits of a decimal
\* numeral convert, anything else raises ValueError
Digits == "0" :> 0 @@ "1" :> 1 @@ "2" :> 2 @@ "3" :> 3 @@ "4" :> 4 @@
          "5" :> 5 @@ "6" :> 6 @@ "7" :> 7 @@ "8" :> 8 @@ "9" :> 9
StatusStrings == {"418", "teapot"}
StrChars(s) ==
    CASE s = "418" -> <<"4", "1", "8">>
      [] s = "teapot" -> <<"t", "e", "a", "p", "o", "t">>
RECURSIVE DecimalValue(_)
DecimalValue(cs) ==
    IF cs = <<>> THEN 0
    ELSE 10 * DecimalValue(SubSeq(cs, 1, Len(cs) - 1)) + Digits[cs[Len(cs)]]
IntOf(v) ==
    CASE v.t = "int" -> Return(v.n)
      [] v.t = "str" ->
            IF \A i \in DOMAIN StrChars(v.s) : StrChars(v.s)[i] \in DOMAIN Digits
            THEN Return(DecimalValue(StrChars(v.s)))
            ELSE Raise(Exc("ValueError"))
      [] OTHER -> Raise(Exc("TypeError"))

\* HttpResponseBase.__init__: status=None keeps the class default 200; a
\* status int() cannot convert raises TypeError; one outside 100..599
\* raises ValueError
StatusCode(status) ==
    IF IsNone(status) THEN Return(200)
    ELSE IF Raised(IntOf(status)) THEN Raise(Exc("TypeError"))
    ELSE IF ~(100 <= IntOf(status).value /\ IntOf(status).value <= 599)
         THEN Raise(Exc("ValueError"))
    ELSE Return(IntOf(status).value)

\* JsonResponse with safe=True: a non-dict is a TypeError, then json.dumps
\* (TypeError on a value it cannot encode), then the status check
JsonResponse(data, status) ==
    IF data.t # "dict" THEN Raise(Exc("TypeError"))
    ELSE IF ~JSONSerializable(data) THEN Raise(Exc("TypeError"))
    ELSE IF Raised(StatusCode(status)) THEN StatusCode(status)
    ELSE Return(HttpResponse(data, StatusCode(status).value))

(***************************************************************************)
(* Schema bindings: the validate decorator (src/brapi/decorators.py).      *)
(***************************************************************************)
Ops == {"create", "list", "retrieve", "update", "destroy"}
\* the functions whose attributes _validate is handed: the five operation
\* methods and BaseAPI.put
Funcs == Ops \cup {"put"}

QueryModel == ModelClass("QueryModel")
BodyModel == ModelClass("BodyModel")
\* a second schema, for a function that is declared on more than once
AltModel == ModelClass("AltModel")

\* a function attribute the decorator has not set
NoAttr == [t |-> "absent"]
HasAttr(a) == a.t # "absent"
Undecorated == [validate_query |-> NoAttr, validate_body |-> NoAttr]
Attributes(b) ==
    {<<f, "validate_query">> : f \in {g \in Funcs : HasAttr(b[g].validate_query)}}
    \cup {<<f, "validate_body">> : f \in {g \in Funcs : HasAttr(b[g].validate_body)}}

\* mutant: the decorator assigns both attributes, also a side left out
validate_overwrites(b, view_func, query, body) ==
    [b EXCEPT ![view_func] =
        [validate_query |-> IF Truthy(query) THEN query ELSE NoAttr,
         validate_body |-> IF Truthy(body) THEN body ELSE NoAttr]]

\* validate(query, body)(view_func): b is the attributes of every function
validate(b, view_func, query, body) ==
    [b EXCEPT ![view_func] =
        [validate_query |-> IF Truthy(query) THEN query ELSE @.validate_query,
         validate_body |-> IF Truthy(body) THEN body ELSE @.validate_body]]

(***************************************************************************)
(* Requests.                                                               *)
(***************************************************************************)
Methods == {"GET", "HEAD", "POST", "PUT", "PATCH", "DELETE", "OPTIONS"}
JSONType == "application/json"
FormType == "application/x-www-form-urlencoded"

\* a parsed key/value mapping, known by the model classes that accept it
DataDict(satisfies) == [t |-> "dict", satisfies |-> satisfies]

\* body bytes: a JSON object, a JSON array, text that is not JSON, bytes
\* that are not UTF-8, or a form-encoded body
Bodies ==
    {[content_type |-> JSONType, raw |-> "object", satisfies |-> s] :
        s \in SUBSET {BodyModel.name}}
    \cup {[content_type |-> JSONType, raw |-> r, satisfies |-> {}] :
        r \in {"array", "garbage", "badutf8"}}
    \cup {[content_type |-> FormType, raw |-> "form", satisfies |-> s] :
        s \in SUBSET {BodyModel.name}}

\* pk is the keyword argument of the item pattern <str:pk> (a non-empty
\* string), None under the collection pattern
Requests ==
    {[method |-> m, pk |-> k, GET |-> DataDict(q),
      content_type |-> body.content_type, body |-> body] :
        m \in Methods, k \in {None, PyStr("42")},
        q \in SUBSET {QueryModel.name}, body \in Bodies}

NoRequest == [method |-> "none"]

\* bytes.decode("utf-8")
decode(body) ==
    IF body.raw = "badutf8" THEN Raise(Exc("UnicodeDecodeError")) ELSE Return(body)

\* json.loads(request.body.decode("utf-8"))
json_loads(body) ==
    IF Raised(decode(body)) THEN decode(body)
    ELSE CASE body.raw = "object" -> Return(DataDict(body.satisfies))
           [] body.raw = "array" -> Return(PyList(<<>>))
           [] OTHER -> Raise(Exc("JSONDecodeError"))

\* request.POST.dict(): the form-encoded fields (no field of a body that
\* is not form-encoded)
POST_dict(req) == DataDict(req.body.satisfies)

\* model(**data): ** needs a mapping, then pydantic validates the fields
Construct(model, data) ==
    IF data.t # "dict" THEN Raise(Exc("TypeError"))
    ELSE IF model.name \in data.satisfies THEN Return(ModelInstance(model, data))
    ELSE Raise(ValidationError(model))

(***************************************************************************)
(* BaseAPI._validate (src/brapi/api.py:60-89).                             *)
(***************************************************************************)
Unset == [validated_query |-> NoAttr, validated_body |-> NoAttr]

\* mutant: validated_query is assigned as soon as the query is validated
_validate_assignsEarly(function, req, b) ==
    LET query_model == IF HasAttr(b[function].validate_query)
                       THEN b[function].validate_query ELSE None
        body_model == IF HasAttr(b[function].validate_body)
                      THEN b[function].validate_body ELSE None
        validated_query == IF Truthy(query_model)
                           THEN Construct(query_model, req.GET)
                           ELSE Return(None)
        parse_body == Truthy(body_model) /\ req.method \in {"POST", "PUT", "PATCH"}
        body_data == IF req.content_type = JSONType
                     THEN json_loads(req.body)
                     ELSE Return(POST_dict(req))
        validated_body == IF ~parse_body THEN Return(None)
                          ELSE IF Raised(body_data) THEN body_data
                          ELSE Construct(body_model, body_data.value)
        parsedq == IF Truthy(query_model) THEN {"query"} ELSE {}
    IN  IF Raised(validated_query)
        THEN [out |-> validated_query, slots |-> Unset, parsed |-> parsedq]
        ELSE IF Raised(validated_body)
        THEN [out |-> validated_body,
              slots |-> [validated_query |-> validated_query.value,
                         validated_body |-> NoAttr],
              parsed |-> parsedq \cup {"body"}]
        ELSE [out |-> Return(None),
              slots |-> [validated_query |-> validated_query.value,
                         validated_body |-> validated_body.value],
              parsed |-> parsedq \cup (IF parse_body THEN {"body"} ELSE {})]

\* The result: out (None returned, or the exception raised), the request's
\* two slots afterwards, and the sides of the request that were parsed.
_validate(function, req, b) ==
    LET query_model == IF HasAttr(b[function].validate_query)
                       THEN b[function].validate_query ELSE None
        body_model == IF HasAttr(b[function].validate_body)
                      THEN b[function].validate_body ELSE None
        validated_query == IF Truthy(query_model)
                           THEN Construct(query_model, req.GET)
                           ELSE Return(None)
        parse_body == Truthy(body_model) /\ req.method \in {"POST", "PUT", "PATCH"}
        body_data == IF req.content_type = JSONType
                     THEN json_loads(req.body)
                     ELSE Return(POST_dict(req))
        validated_body == IF ~parse_body THEN Return(None)
                          ELSE IF Raised(body_data) THEN body_data
                          ELSE Construct(body_model, body_data.value)
        parsedq == IF Truthy(query_model) THEN {"query"} ELSE {}
    IN  IF Raised(validated_query)
        THEN [out |-> validated_query, slots |-> Unset, parsed |-> parsedq]
        ELSE IF Raised(validated_body)
        THEN [out |-> validated_body, slots |-> Unset,
              parsed |-> parsedq \cup {"body"}]
        ELSE [out |-> Return(None),
              slots |-> [validated_query |-> validated_query.value,
                         validated_body |-> validated_body.value],
              parsed |-> parsedq \cup (IF parse_body THEN {"body"} ELSE {})]

(***************************************************************************)
(* The operation methods (src/brapi/api.py:91-132) and the hooks           *)
(* (134-150).  A controller may override each; what an override does is    *)
(* the controller author's code, drawn from the behaviours below.          *)
(***************************************************************************)
\* mutant: an unoverridden operation that returns instead of raising
BaseOperation_returnsEmpty(op) == Return(PyDict(<<>>))

\* BaseAPI.create / list / retrieve / update / destroy
BaseOperation(op) == Raise(Exc("NotImplementedError"))

\* BaseAPI.authenticate / BaseAPI.validate
BaseHook(hook) == Return(None)

\* o: [overridden, behaviour], the method the controller class resolves to
CallOperation(op, o) == IF o.overridden THEN o.behaviour ELSE BaseOperation(op)
CallHook(hook, o) == IF o.overridden THEN o.behaviour ELSE BaseHook(hook)

SampleDict == PyDict([id |-> PyInt(1), name |-> PyStr("foo")])
SampleList == PyList(<<PyInt(1)>>)

\* status values a handler may put in a (body, status) pair or an APIException
Statuses ==
    {None, PyInt(99), PyInt(418), PyInt(600)} \cup {PyStr(s) : s \in StatusStrings}

ReturnValues ==
    {SampleDict, SampleList, PyStr("ok"), PyObject,
     HttpResponse(SampleDict, 200),
     PyTuple(<<SampleDict, PyInt(201)>>), PyTuple(<<SampleDict, None>>),
     PyTuple(<<SampleDict, PyInt(600)>>), PyTuple(<<SampleList, PyInt(201)>>),
     PyTuple(<<SampleDict, PyInt(201), PyInt(0)>>)}

RaisedExceptions ==
    {Exc("NotImplementedError"), Exc("ObjectDoesNotExist"), Exc("DoesNotExist"),
     Exc("TypeError"), Exc("JSONDecodeError"), Exc("KeyError"),
     ValidationError(BodyModel)}
    \cup {APIException(PyStr("teapot"), PyStr("I am a teapot"), s) : s \in Statuses}
    \cup {APIException(PyStr("teapot"), None, PyInt(418))}

OperationImpls ==
    {[overridden |-> FALSE, behaviour |-> BaseOperation("create")]}
    \cup {[overridden |-> TRUE, behaviour |-> Return(v)] : v \in ReturnValues}
    \cup {[overridden |-> TRUE, behaviour |-> Raise(e)] : e \in RaisedExceptions}

HookImpls ==
    {[overridden |-> FALSE, behaviour |-> BaseHook("authenticate")],
     [overridden |-> TRUE, behaviour |-> Return(None)],
     [overridden |-> TRUE,
      behaviour |-> Raise(APIException(PyStr("unauthorized"), PyStr("Login required"),
                                       PyInt(401)))]}

(***************************************************************************)
(* The HTTP method handlers (src/brapi/api.py:154-180).  Each yields the   *)
(* calls it made, the request's slots, what _validate did and parsed, the  *)
(* operation that ran, and its own outcome.                                *)
(***************************************************************************)
Call(fn, arg) == [fn |-> fn, arg |-> arg]
NoImpl == [op |-> "none", overridden |-> FALSE, out |-> Return(None)]

\* a handler that calls neither _validate nor an operation
Plain(out) ==
    [calls |-> <<>>, slots |-> Unset, validator |-> "notrun", parsed |-> {},
     impl |-> NoImpl, out |-> out]

\* self._validate(function, request); return self.<op>(request[, pk])
ValidateThenCall(function, op, req, b, o) ==
    LET v == _validate(function, req, b)
    IN  IF Raised(v.out)
        THEN [calls |-> <<Call("_validate", function)>>, slots |-> v.slots,
              validator |-> "failed", parsed |-> v.parsed, impl |-> NoImpl,
              out |-> v.out]
        ELSE [calls |-> <<Call("_validate", function), Call(op, "")>>,
              slots |-> v.slots, validator |-> "passed", parsed |-> v.parsed,
              impl |-> [op |-> op, overridden |-> o.overridden,
                        out |-> CallOperation(op, o)],
              out |-> CallOperation(op, o)]

\* mutant: get routes the item request to list and the collection one to retrieve
get_swapped(req, b, o) ==
    IF Truthy(req.pk)
    THEN ValidateThenCall("retrieve", "list", req, b, o)
    ELSE ValidateThenCall("retrieve", "retrieve", req, b, o)

get(req, b, o) ==
    IF Truthy(req.pk)
    THEN ValidateThenCall("retrieve", "retrieve", req, b, o)
    ELSE ValidateThenCall("retrieve", "list", req, b, o)

\* post(self, request) takes no keyword argument: calling it with pk=...
\* is a TypeError raised before its body runs
post(req, b, o) ==
    IF ~IsNone(req.pk) THEN Plain(Raise(Exc("TypeError")))
    ELSE ValidateThenCall("create", "create", req, b, o)

put(req, b, o) ==
    IF Truthy(req.pk)
    THEN ValidateThenCall("put", "update", req, b, o)
    ELSE Plain(Return(HttpResponse(
            PyDict([error |-> PyStr("PUT method requires 'pk' parameter")]), 400)))

\* mutant: delete calls destroy without running _validate first
delete_withoutValidator(req, b, o) ==
    IF Truthy(req.pk)
    THEN [calls |-> <<Call("destroy", "")>>, slots |-> Unset, validator |-> "notrun",
          parsed |-> {},
          impl |-> [op |-> "destroy", overridden |-> o.overridden,
                    out |-> CallOperation("destroy", o)],
          out |-> CallOperation("destroy", o)]
    ELSE Plain(Return(HttpResponse(
            PyDict([error |-> PyStr("DELETE method requires 'pk' parameter")]), 400)))

delete(req, b, o) ==
    IF Truthy(req.pk)
    THEN ValidateThenCall("put", "destroy", req, b, o)
    ELSE Plain(Return(HttpResponse(
            PyDict([error |-> PyStr("DELETE method requires 'pk' parameter")]), 400)))

\* django.views.View: options() answers 200 with an Allow header, and a
\* method without a handler gets http_method_not_allowed (405)
options(req) == Plain(Return(HttpResponse(None, 200)))
http_method_not_allowed(req) == Plain(Return(HttpResponse(None, 405)))

\* super().dispatch(request, *args, **kwargs): the handler named after the
\* HTTP method; View.setup makes head an alias of get
ViewDispatch(req, b, o) ==
    CASE req.method \in {"GET", "HEAD"} -> get(req, b, o)
      [] req.method = "POST" -> post(req, b, o)
      [] req.method = "PUT" -> put(req, b, o)
      [] req.method = "DELETE" -> delete(req, b, o)
      [] req.method = "OPTIONS" -> options(req)
      [] OTHER -> http_method_not_allowed(req)

(***************************************************************************)
(* BaseAPI.dispatch (src/brapi/api.py:182-243).                            *)
(***************************************************************************)
ErrorBody(message) == PyDict([error |-> message])
CodedBody(message, code) == PyDict([error |-> message, code |-> code])

\* the body of the try statement, given what super().dispatch did
TryBody(out) ==
    IF Raised(out) THEN out
    ELSE IF out.value.t = "tuple"
    THEN IF Len(out.value.items) # 2
         THEN Raise(Exc("ValueError"))      \* response, code = response
         ELSE JsonResponse(out.value.items[1], out.value.items[2])
    ELSE JsonResponse(out.value, None)

\* mutant: the clauses without the one for ObjectDoesNotExist
ExceptClauses_noNotFound(e) ==
    CASE IsInstance(e, "ValidationError") -> JsonResponse(ErrorBody(e.errors), PyInt(400))
      [] IsInstance(e, "JSONDecodeError") ->
            JsonResponse(ErrorBody(PyStr("Invalid JSON body")), PyInt(400))
      [] IsInstance(e, "NotImplementedError") ->
            JsonResponse(CodedBody(PyStr("Method not supported"),
                                   PyStr("method_not_supported")), PyInt(400))
      [] IsInstance(e, "APIException") ->
            JsonResponse(CodedBody(e.message, e.code), e.status_code)
      [] IsInstance(e, "TypeError") ->
            JsonResponse(CodedBody(PyStr("Server returned invalid data."),
                                   PyStr("server_borked")), PyInt(500))
      [] OTHER ->
            JsonResponse(CodedBody(PyStr("Unknown Error"),
                                   PyStr("server_borked")), PyInt(500))

\* mutant: the APIException clause answers with a fixed status 400
ExceptClauses_fixedStatus(e) ==
    CASE IsInstance(e, "ValidationError") -> JsonResponse(ErrorBody(e.errors), PyInt(400))
      [] IsInstance(e, "JSONDecodeError") ->
            JsonResponse(ErrorBody(PyStr("Invalid JSON body")), PyInt(400))
      [] IsInstance(e, "NotImplementedError") ->
            JsonResponse(CodedBody(PyStr("Method not supported"),
                                   PyStr("method_not_supported")), PyInt(400))
      [] IsInstance(e, "ObjectDoesNotExist") ->
            JsonResponse(CodedBody(PyStr("Object does not exist"),
                                   PyStr("not_found")), PyInt(404))
      [] IsInstance(e, "APIException") ->
            JsonResponse(CodedBody(e.message, e.code), PyInt(400))
      [] IsInstance(e, "TypeError") ->
            JsonResponse(CodedBody(PyStr("Server returned invalid data."),
                                   PyStr("server_borked")), PyInt(500))
      [] OTHER ->
            JsonResponse(CodedBody(PyStr("Unknown Error"),
                                   PyStr("server_borked")), PyInt(500))

\* the except clauses, first match first; an exception raised inside a
\* clause is not caught by the clauses after it
ExceptClauses(e) ==
    CASE IsInstance(e, "ValidationError") -> JsonResponse(ErrorBody(e.errors), PyInt(400))
      [] IsInstance(e, "JSONDecodeError") ->
            JsonResponse(ErrorBody(PyStr("Invalid JSON body")), PyInt(400))
      [] IsInstance(e, "NotImplementedError") ->
            JsonResponse(CodedBody(PyStr("Method not supported"),
                                   PyStr("method_not_supported")), PyInt(400))
      [] IsInstance(e, "ObjectDoesNotExist") ->
            JsonResponse(CodedBody(PyStr("Object does not exist"),
                                   PyStr("not_found")), PyInt(404))
      [] IsInstance(e, "APIException") ->
            JsonResponse(CodedBody(e.message, e.code), e.status_code)
      [] IsInstance(e, "TypeError") ->
            JsonResponse(CodedBody(PyStr("Server returned invalid data."),
                                   PyStr("server_borked")), PyInt(500))
      [] OTHER ->
            JsonResponse(CodedBody(PyStr("Unknown Error"),
                                   PyStr("server_borked")), PyInt(500))

\* the try statement: the response returned, or the exception that leaves it
TryExcept(out) ==
    IF Returned(TryBody(out)) THEN TryBody(out) ELSE ExceptClauses(TryBody(out).exc)

(***************************************************************************)
(* The state machine of one request after another.                         *)
(***************************************************************************)
NoResponse == [t |-> "none"]
NoException == [type |-> "none"]

(***************************************************************************)
(* Router (src/brapi/router.py).  Strings whose characters the code looks  *)
(* at (module paths, routes, names) are sequences of characters.           *)
(***************************************************************************)
\* str.split(sep): the pieces of s between the occurrences of sep
RECURSIVE split(_, _)
split(s, sep) ==
    IF s = <<>> THEN << <<>> >>
    ELSE LET rest == split(Tail(s), sep)
         IN  IF Head(s) = sep
             THEN << <<>> >> \o rest
             ELSE << <<Head(s)>> \o rest[1] >> \o Tail(rest)

\* controller classes, each with the module that declares it (__module__)
JobAPI == [name |-> "JobAPI", module |-> <<"j", "o", "b", "s", ".", "a", "p", "i", "s">>]
RunAPI == [name |-> "RunAPI", module |-> <<"j", "o", "b", "s", ".", "v", "1", ".", "r">>]
UserAPI == [name |-> "UserAPI", module |-> <<"u", "s", "e", "r", "s">>]
Klasses == {JobAPI, RunAPI, UserAPI}

\* klass.as_view() and django.urls.path(route, view, name=...)
as_view(klass) == [t |-> "view", klass |-> klass.name]
path(route, view, name) == [route |-> route, view |-> view, name |-> name]

\* mutant: add skips a package whose routes are already in the list
add_deduplicates(patterns, klass) ==
    LET package_name == split(klass.module, ".")[1]
        base_url == package_name \o <<"/">>
        detail_url == package_name \o <<"/", "<str:pk>", "/">>
    IN  IF \E i \in DOMAIN patterns : patterns[i].route = base_url
        THEN patterns
        ELSE Append(Append(patterns,
                path(base_url, as_view(klass), package_name \o <<"-list">>)),
                path(detail_url, as_view(klass), package_name \o <<"-detail">>))

\* Router.add(klass): the list self.urlpatterns after the two appends
add(patterns, klass) ==
    LET module_name == klass.module
        package_name == split(module_name, ".")[1]
        base_url == package_name \o <<"/">>
        detail_url == package_name \o <<"/", "<str:pk>", "/">>
    IN  Append(Append(patterns,
            path(base_url, as_view(klass), package_name \o <<"-list">>)),
            path(detail_url, as_view(klass), package_name \o <<"-detail">>))

\* Router.urls returns self.urlpatterns: a reference to the list object
\* itself, not a copy of it
NoReference == [t |-> "none"]
Reference(obj) == [t |-> "ref", obj |-> obj]
urls == Reference("urlpatterns")

\* an entry of the caller's own, e.g. path("admin/", admin.site.urls)
AdminEntry ==
    path(<<"a", "d", "m", "i", "n", "/">>, [t |-> "view", klass |-> "admin"], <<>>)

(***************************************************************************)
(* Requests dispatched at the same time: the server's threads, each with   *)
(* its own request object and its own view instance (as_view).             *)
(***************************************************************************)
Threads == {"t1", "t2"}
NoResult == [kind |-> "none"]
NotSeen == [t |-> "none"]
IdleThread == [pc |-> "Idle", request |-> NoRequest, seen |-> NotSeen, result |-> NoResult]
\* a request object as the server creates it: no validated_* attribute yet
NewObject == [slots |-> Unset, writers |-> {}]

Init ==
    /\ bindings = [f \in Funcs |-> Undecorated]
    /\ urlpatterns = <<>>
    /\ registered = <<>>
    /\ returned = NoReference
    /\ callerWrites = 0
    /\ declared = [f \in Funcs |-> <<>>]
    /\ inflight = [t \in Threads |-> IdleThread]
    /\ objects = [t \in Threads |-> NewObject]
    /\ pc = "Idle"
    /\ request = NoRequest
    /\ slots = Unset
    /\ calls = <<>>
    /\ validator = [status |-> "notrun", parsed |-> {}]
    /\ impl = NoImpl
    /\ response = NoResponse
    /\ escaped = NoException

\* @validate(query=..., body=...) applied to a handler function at import
Decorate(f, query, body) ==
    /\ pc = "Idle"
    /\ Cardinality(Attributes(validate(bindings, f, query, body))) <= MaxAttributes
    /\ bindings' = validate(bindings, f, query, body)
    /\ UNCHANGED <<pc, request, slots, calls, validator, impl, response, escaped>>
    /\ UNCHANGED <<routerVars, declVars, concVars>>

\* the host server calls dispatch(request, pk=...): a fresh request object
Receive(req) ==
    /\ pc = "Idle"
    /\ request' = req
    /\ pc' = "Received"
    /\ slots' = Unset
    /\ calls' = <<>>
    /\ validator' = [status |-> "notrun", parsed |-> {}]
    /\ impl' = NoImpl
    /\ response' = NoResponse
    /\ escaped' = NoException
    /\ UNCHANGED bindings
    /\ UNCHANGED <<routerVars, declVars, concVars>>

\* self.authenticate(request), outside the try statement
Authenticate(o) ==
    /\ pc = "Received"
    /\ calls' = Append(calls, Call("authenticate", ""))
    /\ IF Raised(CallHook("authenticate", o))
       THEN pc' = "Escaped" /\ escaped' = CallHook("authenticate", o).exc
       ELSE pc' = "Authenticated" /\ UNCHANGED escaped
    /\ UNCHANGED <<bindings, request, slots, validator, impl, response>>
    /\ UNCHANGED <<routerVars, declVars, concVars>>

\* self.validate(request), outside the try statement
Validate(o) ==
    /\ pc = "Authenticated"
    /\ calls' = Append(calls, Call("validate", ""))
    /\ IF Raised(CallHook("validate", o))
       THEN pc' = "Escaped" /\ escaped' = CallHook("validate", o).exc
       ELSE pc' = "Validated" /\ UNCHANGED escaped
    /\ UNCHANGED <<bindings, request, slots, validator, impl, response>>
    /\ UNCHANGED <<routerVars, declVars, concVars>>

\* the try statement: super().dispatch and the translation of its outcome
Handle(o) ==
    /\ pc = "Validated"
    /\ LET run == ViewDispatch(request, bindings, o)
           res == TryExcept(run.out)
       IN  /\ calls' = calls \o run.calls
           /\ slots' = run.slots
           /\ validator' = [status |-> run.validator, parsed |-> run.parsed]
           /\ impl' = run.impl
           /\ IF Returned(res)
              THEN pc' = "ResponseBuilt" /\ response' = res.value /\ UNCHANGED escaped
              ELSE pc' = "Escaped" /\ escaped' = res.exc /\ UNCHANGED response
    /\ UNCHANGED <<bindings, request>>
    /\ UNCHANGED <<routerVars, declVars, concVars>>

\* dispatch is over; the request object is dropped
Finish ==
    /\ pc \in {"ResponseBuilt", "Escaped"}
    /\ pc' = "Idle"
    /\ request' = NoRequest
    /\ slots' = Unset
    /\ calls' = <<>>
    /\ validator' = [status |-> "notrun", parsed |-> {}]
    /\ impl' = NoImpl
    /\ response' = NoResponse
    /\ escaped' = NoException
    /\ UNCHANGED bindings
    /\ UNCHANGED <<routerVars, declVars, concVars>>

Next ==
    \/ \E f \in Funcs, query \in {None, QueryModel}, body \in {None, BodyModel} :
          Decorate(f, query, body)
    \/ \E req \in Requests : Receive(req)
    \/ \E o \in HookImpls : Authenticate(o)
    \/ \E o \in HookImpls : Validate(o)
    \/ \E o \in OperationImpls : Handle(o)
    \/ Finish

Spec == Init /\ [][Next]_vars

(***************************************************************************)
(* The Router at start-up: add is called for each controller, and the      *)
(* project's urls.py reads the urls property and may edit what it got.     *)
(***************************************************************************)
\* router.add(klass)
RouterAdd(klass) ==
    /\ Len(registered) < MaxRegistrations
    /\ urlpatterns' = add(urlpatterns, klass)
    /\ registered' = Append(registered, klass)
    /\ UNCHANGED <<returned, callerWrites>>
    /\ UNCHANGED <<dispatchVars, declVars, concVars>>

\* urlpatterns = router.urls
RouterUrls ==
    /\ returned = NoReference
    /\ returned' = urls
    /\ UNCHANGED <<urlpatterns, registered, callerWrites>>
    /\ UNCHANGED <<dispatchVars, declVars, concVars>>

\* what the list object named by a reference holds after a caller's write
WriteThrough(ref, new) == IF ref = Reference("urlpatterns") THEN new ELSE urlpatterns

\* the caller appends an entry to the list it was handed
CallerAppend ==
    /\ returned # NoReference
    /\ callerWrites < MaxCallerWrites
    /\ urlpatterns' = WriteThrough(returned, Append(urlpatterns, AdminEntry))
    /\ callerWrites' = callerWrites + 1
    /\ UNCHANGED <<registered, returned>>
    /\ UNCHANGED <<dispatchVars, declVars, concVars>>

\* the caller removes the last entry of the list it was handed
CallerRemove ==
    /\ returned # NoReference
    /\ callerWrites < MaxCallerWrites
    /\ urlpatterns # <<>>
    /\ urlpatterns' = WriteThrough(returned, SubSeq(urlpatterns, 1, Len(urlpatterns) - 1))
    /\ callerWrites' = callerWrites + 1
    /\ UNCHANGED <<registered, returned>>
    /\ UNCHANGED <<dispatchVars, declVars, concVars>>

\* the caller replaces entry i of the list it was handed
CallerReplace(i) ==
    /\ returned # NoReference
    /\ callerWrites < MaxCallerWrites
    /\ i \in DOMAIN urlpatterns
    /\ urlpatterns' = WriteThrough(returned, [urlpatterns EXCEPT ![i] = AdminEntry])
    /\ callerWrites' = callerWrites + 1
    /\ UNCHANGED <<registered, returned>>
    /\ UNCHANGED <<dispatchVars, declVars, concVars>>

NextRouter ==
    \/ \E klass \in Klasses : RouterAdd(klass)
    \/ RouterUrls
    \/ CallerAppend
    \/ CallerRemove
    \/ \E i \in 1..(2 * MaxRegistrations) : CallerReplace(i)

SpecRouter == Init /\ [][NextRouter]_vars

(***************************************************************************)
(* Declarations at import: validate(...) applied to the same function      *)
(* several times (stacked decorators, or a later re-declaration).          *)
(***************************************************************************)
DeclaredFuncs == {"create", "put"}

RECURSIVE Declarations(_, _)
Declarations(d, fs) ==
    IF fs = {} THEN 0
    ELSE LET f == CHOOSE g \in fs : TRUE
         IN  Len(d[f]) + Declarations(d, fs \ {f})

\* validate(query=query, body=body)(f)
Declare(f, query, body) ==
    /\ Declarations(declared, Funcs) < MaxDeclarations
    /\ bindings' = validate(bindings, f, query, body)
    /\ declared' = [declared EXCEPT ![f] = Append(@, [query |-> query, body |-> body])]
    /\ UNCHANGED <<pc, request, slots, calls, validator, impl, response, escaped>>
    /\ UNCHANGED <<routerVars, concVars>>

NextDecl ==
    \E f \in DeclaredFuncs, query \in {None, QueryModel, AltModel},
       body \in {None, BodyModel} :
          Declare(f, query, body)

SpecDecl == Init /\ [][NextDecl]_vars

(***************************************************************************)
(* Dispatch of several requests at the same time.  Each thread runs        *)
(* dispatch on its own request object; the steps of a thread are the       *)
(* handler's call of _validate and its call of the operation.  The hooks   *)
(* are the base ones, which do nothing.                                    *)
(***************************************************************************)
\* what the controllers of the project declared at import
DeclaredBindings ==
    validate(validate(validate([f \in Funcs |-> Undecorated],
        "create", QueryModel, BodyModel), "retrieve", QueryModel, None),
        "put", None, BodyModel)
ServedBindings == {[f \in Funcs |-> Undecorated], DeclaredBindings}

ServedRequests ==
    {req \in Requests :
        /\ req.method \in {"GET", "POST", "PUT", "DELETE"}
        /\ req.content_type = JSONType
        /\ req.body.raw \in {"object", "garbage"}}

InitServing ==
    /\ bindings \in ServedBindings
    /\ urlpatterns = add(<<>>, JobAPI)
    /\ registered = <<JobAPI>>
    /\ returned = NoReference
    /\ callerWrites = 0
    /\ declared = [f \in Funcs |-> <<>>]
    /\ inflight = [t \in Threads |-> IdleThread]
    /\ objects = [t \in Threads |-> NewObject]
    /\ pc = "Idle"
    /\ request = NoRequest
    /\ slots = Unset
    /\ calls = <<>>
    /\ validator = [status |-> "notrun", parsed |-> {}]
    /\ impl = NoImpl
    /\ response = NoResponse
    /\ escaped = NoException

\* an operation of the controller that reads request.validated_query and
\* request.validated_body and answers with what it read
Echo(read) ==
    IF ~HasAttr(read.validated_query) \/ ~HasAttr(read.validated_body)
    THEN Raise(Exc("AttributeError"))
    ELSE Return(PyDict(
            [query |-> IF IsNone(read.validated_query) THEN None
                       ELSE PyStr(read.validated_query.cls),
             body |-> IF IsNone(read.validated_body) THEN None
                      ELSE PyStr(read.validated_body.cls)]))
EchoImpl(read) == [overridden |-> TRUE, behaviour |-> Echo(read)]

\* mutant: _validate sets the attributes on an object all threads share
SlotTarget_shared(t) == "t1"

\* setattr(request, ...): the object written is the request argument of
\* this thread's dispatch
SlotTarget(t) == t

\* the server hands a new request object to dispatch on thread t
ConcReceive(t, req) ==
    /\ inflight[t].pc = "Idle"
    /\ inflight' = [inflight EXCEPT ![t] =
            [pc |-> "Received", request |-> req,
             seen |-> [bindings |-> bindings, urlpatterns |-> urlpatterns],
             result |-> NoResult]]
    /\ objects' = [objects EXCEPT ![t] = NewObject]
    /\ UNCHANGED <<dispatchVars, routerVars, declVars>>

\* the handler up to and including self._validate(function, request); a
\* handler that does not call it, or whose _validate raises, ends dispatch
ConcValidate(t) ==
    /\ inflight[t].pc = "Received"
    /\ LET req == inflight[t].request
           run == ViewDispatch(req, bindings, EchoImpl(Unset))
       IN  IF run.validator = "passed"
           THEN /\ objects' = [objects EXCEPT ![SlotTarget(t)] =
                        [slots |-> run.slots, writers |-> @.writers \cup {t}]]
                /\ inflight' = [inflight EXCEPT ![t].pc = "Validated"]
           ELSE /\ inflight' = [inflight EXCEPT ![t].pc = "Done",
                                                ![t].result = TryExcept(run.out)]
                /\ UNCHANGED objects
    /\ UNCHANGED <<dispatchVars, routerVars, declVars>>

\* the handler's call of the operation, which reads the attributes of its
\* request argument, and the rest of dispatch
ConcOperate(t) ==
    /\ inflight[t].pc = "Validated"
    /\ LET req == inflight[t].request
           run == ViewDispatch(req, bindings, EchoImpl(objects[t].slots))
       IN  inflight' = [inflight EXCEPT ![t].pc = "Done",
                                        ![t].result = TryExcept(run.out)]
    /\ UNCHANGED objects
    /\ UNCHANGED <<dispatchVars, routerVars, declVars>>

\* dispatch returned; the request object is dropped
ConcFinish(t) ==
    /\ inflight[t].pc = "Done"
    /\ inflight' = [inflight EXCEPT ![t] = IdleThread]
    /\ objects' = [objects EXCEPT ![t] = NewObject]
    /\ UNCHANGED <<dispatchVars, routerVars, declVars>>

NextConc ==
    \/ \E t \in Threads, req \in ServedRequests : ConcReceive(t, req)
    \/ \E t \in Threads : ConcValidate(t)
    \/ \E t \in Threads : ConcOperate(t)
    \/ \E t \in Threads : ConcFinish(t)

SpecConc == InitServing /\ [][NextConc]_vars

(***************************************************************************)
(* Properties.                                                             *)
(***************************************************************************)
\* dispatch has ended for the current request
Ended == pc \in {"ResponseBuilt", "Escaped"}
\* the operation methods called for the current request, in order
OpCalls == SelectSeq(calls, LAMBDA c : c.fn \in Ops)
Count(fn) == Cardinality({i \in DOMAIN calls : calls[i].fn = fn})
\* the operation the routing table of the spec gives a request
RoutedOperation(req) ==
    CASE req.method = "GET" /\ ~IsNone(req.pk) -> "retrieve"
      [] req.method = "GET" /\ IsNone(req.pk) -> "list"
      [] req.method = "POST" -> "create"
      [] req.method = "PUT" /\ ~IsNone(req.pk) -> "update"
      [] req.method = "DELETE" /\ ~IsNone(req.pk) -> "destroy"
      [] OTHER -> "none"
ValidStatus(s) == s.t = "int" /\ 100 <= s.n /\ s.n <= 599

\* C1: no failure escapes dispatch: whatever raises (the authentication
\* hook, the validation hook, the Request Validator, the operation, the
\* building of the response), dispatch ends with a response.
C1_NoFailureEscapes == pc # "Escaped" /\ escaped = NoException

\* C2: whenever an operation method has been called, the calls before it
\* are authenticate, validate and _validate, in that order, each made
\* exactly once.
C2_HooksBeforeOperation ==
    \A i \in DOMAIN calls :
        calls[i].fn \in Ops =>
            /\ i = 4
            /\ calls[1].fn = "authenticate"
            /\ calls[2].fn = "validate"
            /\ calls[3].fn = "_validate"
            /\ Count("authenticate") = 1
            /\ Count("validate") = 1
            /\ Count("_validate") = 1
C2_Witness ==
    /\ pc = "ResponseBuilt"
    /\ request.method = "DELETE"
    /\ impl.op = "destroy"
    /\ impl.overridden
    /\ Len(calls) = 4

\* C3: for a request that passed the Request Validator, GET with pk calls
\* retrieve, GET without pk calls list, POST without pk calls create, PUT
\* with pk calls update, DELETE with pk calls destroy: that operation
\* once, and no other operation.
C3_Routing ==
    (validator.status = "passed" /\ RoutedOperation(request) # "none"
        /\ ~(request.method = "POST" /\ ~IsNone(request.pk)))
    => OpCalls = <<Call(RoutedOperation(request), "")>>
C3_Witness ==
    /\ pc = "ResponseBuilt"
    /\ validator.status = "passed"
    /\ request.method = "GET"
    /\ IsNone(request.pk)
    /\ OpCalls = <<Call("list", "")>>
    /\ response.status = 200

\* C4: a PUT without pk ends in status 400 with body {"error": "PUT method
\* requires 'pk' parameter"} and update is not called; a DELETE without pk
\* ends in status 400 and destroy is not called.
C4_PutDeleteWithoutPk ==
    (pc = "ResponseBuilt" /\ request.method \in {"PUT", "DELETE"}
        /\ IsNone(request.pk))
    => /\ response.status = 400
       /\ request.method = "PUT" =>
            response.body = ErrorBody(PyStr("PUT method requires 'pk' parameter"))
       /\ OpCalls = <<>>

\* C5: when the operation returns a (body, status) pair the response
\* carries that body and that status; when it returns any other
\* JSON-serializable value the response carries that value with status 200.
C5_SuccessTranslation ==
    (pc = "ResponseBuilt" /\ impl.op \in Ops /\ Returned(impl.out))
    => LET v == impl.out.value
       IN  /\ (v.t = "tuple" /\ Len(v.items) = 2 /\ JSONSerializable(v.items[1])
                 /\ ValidStatus(v.items[2]))
              => response = HttpResponse(v.items[1], v.items[2].n)
           /\ (v.t # "tuple" /\ JSONSerializable(v))
              => response = HttpResponse(v, 200)

\* the query (body) of the request is invalid against the query (body)
\* schema declared for operation op
QueryInvalidFor(op) ==
    /\ HasAttr(bindings[op].validate_query)
    /\ bindings[op].validate_query.name \notin request.GET.satisfies
BodyInvalidFor(op) ==
    /\ HasAttr(bindings[op].validate_body)
    /\ request.method \in {"POST", "PUT", "PATCH"}
    /\ request.body.raw \in {"object", "form"}
    /\ bindings[op].validate_body.name \notin request.body.satisfies
\* the request reached an HTTP method handler that routes to an operation
Routed ==
    /\ pc = "ResponseBuilt"
    /\ RoutedOperation(request) # "none"
    /\ ~(request.method = "POST" /\ ~IsNone(request.pk))

\* C6: a request whose query or body is invalid against the schema
\* declared for the operation it routes to ends in status 400 with the
\* schema engine's violations in the error field, and the operation is
\* not called.
C6_InvalidInputRejected ==
    \A op \in Ops :
        (Routed /\ RoutedOperation(request) = op
            /\ (QueryInvalidFor(op) \/ BodyInvalidFor(op)))
        => /\ response.status = 400
           /\ \E m \in {QueryModel, BodyModel} :
                 response.body = ErrorBody(ValidationError(m).errors)
           /\ OpCalls = <<>>

\* C7: the Request Validator is handed the function of the operation the
\* routing table resolves: list for GET without pk, retrieve for GET with
\* pk, create for POST, update for PUT with pk, and no other function.
C7_ValidatorUsesRoutedBinding ==
    \A i \in DOMAIN calls :
        (calls[i].fn = "_validate" /\ request.method \in {"GET", "POST", "PUT"})
        => calls[i].arg = RoutedOperation(request)

\* C8: when the operation a request routes to declares no query (body)
\* schema, the Request Validator parses nothing for that side, so it
\* raises nothing, and the validated_query (validated_body) slot is unset
\* when the operation runs.
C8_NoSchemaNoParsing ==
    \A op \in Ops :
        (Routed /\ RoutedOperation(request) = op)
        => /\ ~HasAttr(bindings[op].validate_query)
              => /\ "query" \notin validator.parsed
                 /\ OpCalls # <<>> => IsNone(slots.validated_query)
           /\ ~HasAttr(bindings[op].validate_body)
              => /\ "body" \notin validator.parsed
                 /\ OpCalls # <<>> => IsNone(slots.validated_body)
           /\ (~HasAttr(bindings[op].validate_query)
                 /\ ~HasAttr(bindings[op].validate_body))
              => validator.status = "passed"

\* C9: an operation left at its default implementation, once called, ends
\* the request with status 400 and body {"error": "Method not supported",
\* "code": "method_not_supported"}.
C9_DefaultOperationUnsupported ==
    (Ended /\ impl.op \in Ops /\ ~impl.overridden)
    => /\ pc = "ResponseBuilt"
       /\ response = HttpResponse(CodedBody(PyStr("Method not supported"),
                                            PyStr("method_not_supported")), 400)
C9_Witness ==
    /\ pc = "ResponseBuilt"
    /\ impl.op = "retrieve"
    /\ ~impl.overridden
    /\ response.status = 400

\* an APIException raised by the operation that was called
APIErrorRaised ==
    /\ Ended
    /\ impl.op \in Ops
    /\ Raised(impl.out)
    /\ impl.out.exc.type = "APIException"

C11_NotFound ==
    (Ended /\ impl.op \in Ops /\ Raised(impl.out)
        /\ IsInstance(impl.out.exc, "ObjectDoesNotExist"))
    => /\ pc = "ResponseBuilt"
       /\ response = HttpResponse(CodedBody(PyStr("Object does not exist"),
                                            PyStr("not_found")), 404)
C11_Witness ==
    /\ pc = "ResponseBuilt"
    /\ request.method = "DELETE"
    /\ impl.op = "destroy"
    /\ Raised(impl.out)
    /\ impl.out.exc = Exc("DoesNotExist")
    /\ response.status = 404

InvalidData500 ==
    HttpResponse(CodedBody(PyStr("Server returned invalid data."),
                           PyStr("server_borked")), 500)
UnknownError500 ==
    HttpResponse(CodedBody(PyStr("Unknown Error"), PyStr("server_borked")), 500)

\* C14: the response 500 "Server returned invalid data." is built only
\* when an operation ran and returned a value that could not be turned
\* into the JSON response; a TypeError raised inside the operation is
\* answered with 500 "Unknown Error".
C14_Classification ==
    pc = "ResponseBuilt"
    => /\ response = InvalidData500
          => (impl.op \in Ops /\ Returned(impl.out))
       /\ (impl.op \in Ops /\ Raised(impl.out) /\ impl.out.exc = Exc("TypeError"))
          => response = UnknownError500

\* the function handed to _validate for the current request
Consulted == {calls[i].arg : i \in {j \in DOMAIN calls : calls[j].fn = "_validate"}}

\* C15: for a PUT or DELETE with pk the Request Validator is
\* run with update's binding: update's query schema is the one applied.
C15_PutDeleteUseUpdateBinding ==
    (validator.status # "notrun" /\ request.method \in {"PUT", "DELETE"})
    => /\ Consulted = {"update"}
       /\ "query" \in validator.parsed <=> HasAttr(bindings["update"].validate_query)

InvalidJSON400 == HttpResponse(ErrorBody(PyStr("Invalid JSON body")), 400)

\* C16: the body is parsed only when a body schema is bound to the
\* function handed to _validate and the method is POST, PUT or PATCH; a
\* JSON body that cannot be parsed then ends the request with 400
\* {"error": "Invalid JSON body"} without an operation call; and without
\* an operation call that response is built in no other case.
C16_MalformedBody ==
    /\ "body" \in validator.parsed
       => /\ \A f \in Consulted : HasAttr(bindings[f].validate_body)
          /\ request.method \in {"POST", "PUT", "PATCH"}
    /\ ("body" \in validator.parsed /\ request.content_type = JSONType
          /\ request.body.raw \in {"garbage", "badutf8"})
       => /\ pc = "ResponseBuilt"
          /\ response = InvalidJSON400
          /\ OpCalls = <<>>
    /\ (pc = "ResponseBuilt" /\ response = InvalidJSON400 /\ OpCalls = <<>>)
       => "body" \in validator.parsed

\* C19: every POST, with or without pk, is validated against create's
\* binding and calls create.
C19_PostAlwaysCreates ==
    (pc = "ResponseBuilt" /\ request.method = "POST")
    => /\ Consulted = {"create"}
       /\ validator.status = "passed" => OpCalls = <<Call("create", "")>>

\* C20: when an operation is called, _validate has assigned both slots of
\* this request (a model instance or None each); when _validate raised,
\* neither slot is assigned and no operation is called.
C20_SlotsAssigned ==
    /\ OpCalls # <<>>
       => /\ validator.status = "passed"
          /\ slots.validated_query.t \in {"None", "model"}
          /\ slots.validated_body.t \in {"None", "model"}
    /\ validator.status = "failed"
       => /\ slots = Unset
          /\ OpCalls = <<>>
C20_Witness ==
    /\ pc = "ResponseBuilt"
    /\ validator = [status |-> "failed", parsed |-> {"query", "body"}]
    /\ request.method = "POST"
    /\ response.status = 400

\* the resource name of a class: its module path up to the first "."
ResourceName(klass) ==
    LET m == klass.module
        dots == {i \in DOMAIN m : m[i] = "."}
        end == IF dots = {} THEN Len(m)
               ELSE (CHOOSE i \in dots : \A j \in dots : i <= j) - 1
    IN  SubSeq(m, 1, end)

\* the table that a sequence of registrations alone gives: for the k-th
\* class, entry 2k-1 is the collection pattern and entry 2k the item pattern
RouteTable(klasses) ==
    [i \in 1..(2 * Len(klasses)) |->
        LET klass == klasses[(i + 1) \div 2]
            R == ResourceName(klass)
        IN  IF i % 2 = 1
            THEN path(R \o <<"/">>, as_view(klass), R \o <<"-list">>)
            ELSE path(R \o <<"/", "<str:pk>", "/">>, as_view(klass), R \o <<"-detail">>)]

\* C12: as long as nothing but add has touched the list, after n calls of
\* add it holds exactly 2n entries: for each call, in call order, the
\* pattern R/ then R/<str:pk>/ of the class's resource name R, also when a
\* class or a resource name is registered again.
C12_RouteTableShape ==
    callerWrites = 0
    => /\ Len(urlpatterns) = 2 * Len(registered)
       /\ urlpatterns = RouteTable(registered)
C12_Witness ==
    /\ callerWrites = 0
    /\ registered = <<JobAPI, RunAPI, JobAPI>>
    /\ Len(urlpatterns) = 6
    /\ urlpatterns[1] = urlpatterns[5]
    /\ urlpatterns[3].route = <<"j", "o", "b", "s", "/">>

\* C18: whatever the caller does with the value urls returned, the
\* Router's list holds what the calls of add put there.
C18_UrlsImmutableView ==
    returned # NoReference => urlpatterns = RouteTable(registered)

\* the attribute that holding schema x, or no schema, on a side amounts to
AttributeOf(x) == IF Truthy(x) THEN x ELSE NoAttr

\* the last schema a sequence of declarations gave on one side
LastGiven(ds, side) ==
    LET given == {i \in DOMAIN ds : Truthy(ds[i][side])}
    IN  IF given = {} THEN NoAttr
        ELSE ds[CHOOSE i \in given : \A j \in given : j <= i][side]

\* C17 as stated: a function's binding is the pair of its last
\* declaration alone, a side that declaration left out being absent.
C17_LastDeclarationAlone ==
    \A f \in Funcs :
        declared[f] # <<>>
        => LET last == declared[f][Len(declared[f])]
           IN  bindings[f] = [validate_query |-> AttributeOf(last.query),
                              validate_body |-> AttributeOf(last.body)]

\* C17 as amended: each side of a function's binding is the schema of the
\* last declaration that gave that side a schema; a side the last
\* declaration left out keeps the schema an earlier declaration gave it,
\* and is absent only if no declaration gave it one.
C17_LastGivenPerSide ==
    \A f \in Funcs :
        bindings[f] = [validate_query |-> LastGiven(declared[f], "query"),
                       validate_body |-> LastGiven(declared[f], "body")]
C17_Witness ==
    /\ declared["create"] = <<[query |-> QueryModel, body |-> BodyModel],
                              [query |-> AltModel, body |-> None]>>
    /\ bindings["create"] = [validate_query |-> AltModel, validate_body |-> BodyModel]

\* what dispatch alone does for a request whose operation is Echo
SoloSlots(req, b) == ViewDispatch(req, b, EchoImpl(Unset)).slots
Solo(req, b) == TryExcept(ViewDispatch(req, b, EchoImpl(SoloSlots(req, b))).out)

\* C13: whatever the interleaving of the requests in flight, the
\* attributes of a request object are written by its own dispatch only,
\* the bindings and the route table are those the dispatch started with,
\* the operation finds in its request what its own _validate put there,
\* and the result of dispatch is the one the request gets when alone.
C13_NoInterference ==
    \A t \in Threads :
        /\ objects[t].writers \subseteq {t}
        /\ inflight[t].pc # "Idle"
           => inflight[t].seen = [bindings |-> bindings, urlpatterns |-> urlpatterns]
        /\ inflight[t].pc = "Validated"
           => objects[t].slots = SoloSlots(inflight[t].request, bindings)
        /\ inflight[t].pc = "Done"
           => inflight[t].result = Solo(inflight[t].request, bindings)
C13_Witness ==
    /\ inflight["t1"].pc = "Validated"
    /\ inflight["t2"].pc = "Done"
    /\ objects["t1"].slots.validated_body # objects["t2"].slots.validated_body
    /\ inflight["t1"].request.method = "POST"
    /\ inflight["t2"].request.method = "GET"
    /\ Returned(inflight["t2"].result)
    /\ inflight["t2"].result.value.status = 200

====
